---- MODULE Spec2Model ----
(***************************************************************************)
(* Session authentication and rotation of the inventory API:               *)
(* server/api/middleware/authCheck.js.                                     *)
(*                                                                         *)
(* A request is handled by authCheck (the gate) or by a direct call of     *)
(* authCheckHelper (the validator) with arbitrary option flags.  Every     *)
(* await of the code is a point where other requests, timers and the clock *)
(* may interleave: an action is the store operation awaited together with  *)
(* the synchronous code up to the next await.  The two find operations are *)
(* split from their continuations because the continuation reads the clock.*)
(*                                                                         *)
(* Time is counted in abstract ticks.  Ids: a session pair n consists of   *)
(* LoginSession n and CSRFSession n; a token is the id of the LoginSession *)
(* it names.  0 is an absent (falsy) value, -1 a value that names nothing  *)
(* (a token whose signature does not verify, a csrf value of no session).  *)
(***************************************************************************)
EXTENDS Integers, Sequences, FiniteSets

\* ---------------------------------------------------------------- bounds
MaxSessions == 2
MaxRequests == 2
MaxTime == 2

\* ------------------------------------------------------ program constants
\* setTimeout(..., 15 * 1000): the grace delay, in ticks
GraceDelay == 1
\* "session in database lasts 15 minutes": the TTL newSession gives, in ticks
SessionTTL == 2

Clients == {"u1", "u2"}
\* mutant: the login endpoint is missing from the allowlist
exemptEndpointsNoLogin == {"/", "/auth/register", "/auth/loggedInCheck", "/auth/logout"}

exemptEndpoints == {"/", "/auth/register", "/auth/loggedInCheck", "/auth/login", "/auth/logout"}
Paths == {"/auth/login", "/customers"}

Absent == 0
Bogus == -1
SessionIds == 1..MaxSessions

VARIABLES now, nextId, loginStore, csrfStore, timers, req, nreq, issued, scheduled, purged, fired

vars == <<now, nextId, loginStore, csrfStore, timers, req, nreq, issued, scheduled, purged, fired>>

\* the handlers in flight, one slot each
Slots == DOMAIN req

\* one request is handled at a time
Sequential == Cardinality(Slots) = 1

\* room for the pairs of the logins and one replacement pair for each handler in flight
SessionCap == MaxSessions + Cardinality(Slots) - 1

\* ------------------------------------------------------------ the stores
NotFound == [found |-> FALSE, uuid |-> 0, clientId |-> "", expiresAt |-> 0, isCanceled |-> FALSE]

\* findLoginSession(uuid): the record, or a falsy value
findLoginSession(store, uuid) ==
    IF uuid \in DOMAIN store
    THEN [found |-> TRUE, uuid |-> uuid, clientId |-> store[uuid].clientId,
          expiresAt |-> store[uuid].expiresAt, isCanceled |-> store[uuid].isCanceled]
    ELSE NotFound

\* findCSRFSession(uuid): the record (it carries its own csrfSessionUUID), or a falsy value
findCSRFSession(store, uuid) ==
    IF uuid \in DOMAIN store
    THEN [found |-> TRUE, uuid |-> uuid, clientId |-> store[uuid].clientId,
          expiresAt |-> store[uuid].expiresAt, isCanceled |-> FALSE]
    ELSE NotFound

\* deleteLoginSession / deleteCSRFSession: removing an id that is not there changes nothing
deleteSession(store, uuid) ==
    [i \in DOMAIN store \ {uuid} |-> store[i]]

\* newSession(clientId): one LoginSession and one CSRFSession, same owner, same TTL
newLoginSession(store, uuid, clientId, t) ==
    [i \in DOMAIN store \cup {uuid} |->
        IF i = uuid THEN [clientId |-> clientId, expiresAt |-> t + SessionTTL, isCanceled |-> FALSE]
        ELSE store[i]]

newCSRFSession(store, uuid, clientId, t) ==
    [i \in DOMAIN store \cup {uuid} |->
        IF i = uuid THEN [clientId |-> clientId, expiresAt |-> t + SessionTTL]
        ELSE store[i]]

\* ------------------------------------------------------- the credential
\* mutant: the token is decoded without its signature being verified
jwtDecode(token) == IF token # Absent THEN token ELSE Absent

\* jwt.verify(authJWTCookie, JWT_SECRET): the loginSessionUUID of a token this
\* server signed; Absent when verification throws
jwtVerify(token) == IF token >= 1 THEN token ELSE Absent

\* ------------------------------------------------------------- requests
NoResponse == <<>>

Idle ==
    [pc |-> "idle", id |-> 0, arrivedAt |-> 0, mode |-> "none", path |-> "",
     sendResOnFail |-> FALSE, deleteCookiesOnFail |-> FALSE,
     jwt |-> Absent, csrfCookie |-> Absent, csrfHeader |-> Absent,
     loginSessionUUID |-> Absent, csrfSessionUUID |-> Absent,
     loginSession |-> NotFound, csrfSession |-> NotFound,
     status |-> 0, errorType |-> "",
     result |-> "pending",
     responses |-> NoResponse, cleared |-> {}, cookies |-> <<>>,
     nextCalls |-> 0, auth |-> <<>>,
     ops |-> <<>>, errs |-> {}, loginFresh |-> FALSE, csrfFresh |-> FALSE]

AuthCookies == {"auth_jwt", "auth_csrf"}

\* res.status(status).json({ authRejected: { errorType, ... } })
Respond(rq, status, errorType) ==
    [rq EXCEPT !.responses = Append(@, [status |-> status, errorType |-> errorType]), !.pc = "done"]

Log(rq, op) == [rq EXCEPT !.ops = Append(@, op)]

LogError(rq, op) == [rq EXCEPT !.ops = Append(@, op), !.errs = @ \cup {op}]

\* ------------------------------------------------------- authCheckHelper
\* mutant: the presence test answers yes whatever the request holds
userSuppliedAnyAuthAlways(authJWTCookie, authCSRFCookie, authCSRFHeader) == TRUE

userSuppliedAnyAuth(authJWTCookie, authCSRFCookie, authCSRFHeader) ==
    authJWTCookie # Absent \/ authCSRFCookie # Absent \/ authCSRFHeader # Absent

\* mutant: the cookie is compared with the header again
incompleteAuthOrMismatch(authJWTCookie, authCSRFCookie, authCSRFHeader) ==
    \/ authJWTCookie = Absent \/ authCSRFCookie = Absent \/ authCSRFHeader = Absent
    \/ authCSRFCookie # authCSRFHeader

\* mutant: the auth_csrf cookie is left out of the completeness test
incompleteAuthNoCookie(authJWTCookie, authCSRFCookie, authCSRFHeader) ==
    authJWTCookie = Absent \/ authCSRFHeader = Absent

\* !authJWTCookie || !authCSRFCookie || !authCSRFHeader
incompleteAuth(authJWTCookie, authCSRFCookie, authCSRFHeader) ==
    authJWTCookie = Absent \/ authCSRFCookie = Absent \/ authCSRFHeader = Absent

\* mutant: onAuthFailure returns false without sending the response
onAuthFailureReturnSilent(rq) ==
    [rq EXCEPT !.result = "fail", !.pc = "done"]

\* mutant: authCheck does not return when authCheckHelper has returned false
onAuthFailureReturnGateGoesOn(rq) ==
    [rq EXCEPT !.responses = IF rq.sendResOnFail
                             THEN Append(@, [status |-> rq.status, errorType |-> rq.errorType])
                             ELSE @,
               !.result = "fail",
               !.pc = IF rq.mode = "gate" THEN "getClient" ELSE "done"]

\* the end of onAuthFailure: the response when asked for, then return false
onAuthFailureReturn(rq) ==
    [rq EXCEPT !.responses = IF rq.sendResOnFail
                             THEN Append(@, [status |-> rq.status, errorType |-> rq.errorType])
                             ELSE @,
               !.result = "fail",
               !.pc = "done"]

\* onAuthFailure after the LoginSession part: the CSRFSession is deleted when one was resolved
onAuthFailureCSRF(rq) ==
    IF rq.csrfSessionUUID # Absent
    THEN [rq EXCEPT !.pc = "failDeleteCSRF"]
    ELSE onAuthFailureReturn(rq)

\* mutant: the LoginSession is not deleted on failure
onAuthFailureKeepLogin(rq, status, errorType) ==
    onAuthFailureCSRF([rq EXCEPT !.status = status,
                                 !.errorType = errorType,
                                 !.cleared = IF rq.deleteCookiesOnFail THEN @ \cup AuthCookies ELSE @])

\* mutant: the cookies are not cleared on failure
onAuthFailureKeepCookies(rq, status, errorType) ==
    LET a == [rq EXCEPT !.status = status, !.errorType = errorType]
    IN  IF a.loginSessionUUID # Absent
        THEN [a EXCEPT !.pc = "failDeleteLogin"]
        ELSE onAuthFailureCSRF(a)

\* mutant: the LoginSession is deleted only when the cookies are to be cleared
onAuthFailureDeleteIfClearing(rq, status, errorType) ==
    LET a == [rq EXCEPT !.status = status,
                        !.errorType = errorType,
                        !.cleared = IF rq.deleteCookiesOnFail THEN @ \cup AuthCookies ELSE @]
    IN  IF a.loginSessionUUID # Absent /\ rq.deleteCookiesOnFail
        THEN [a EXCEPT !.pc = "failDeleteLogin"]
        ELSE onAuthFailureCSRF(a)

\* onAuthFailure(status, errorType, errorMessage) up to its first await
onAuthFailure(rq, status, errorType) ==
    LET a == [rq EXCEPT !.status = status,
                        !.errorType = errorType,
                        !.cleared = IF rq.deleteCookiesOnFail THEN @ \cup AuthCookies ELSE @]
    IN  IF a.loginSessionUUID # Absent
        THEN [a EXCEPT !.pc = "failDeleteLogin"]
        ELSE onAuthFailureCSRF(a)

\* mutant: the completeness test is made before the token is verified
authCheckHelperStartCompleteFirst(rq) ==
    IF ~userSuppliedAnyAuth(rq.jwt, rq.csrfCookie, rq.csrfHeader)
    THEN [rq EXCEPT !.responses = IF rq.sendResOnFail
                                  THEN Append(@, [status |-> 401, errorType |-> "notLoggedIn"])
                                  ELSE @,
                    !.status = 401,
                    !.errorType = "notLoggedIn",
                    !.result = "fail",
                    !.pc = "done"]
    ELSE IF incompleteAuth(rq.jwt, rq.csrfCookie, rq.csrfHeader)
    THEN onAuthFailure(rq, 401, "incompleteAuth")
    ELSE IF jwtVerify(rq.jwt) = Absent
    THEN onAuthFailure(rq, 401, "verification")
    ELSE [rq EXCEPT !.loginSessionUUID = jwtVerify(rq.jwt), !.pc = "findLogin"]

\* authCheckHelper up to its first await: presence, token verification, completeness
authCheckHelperStart(rq) ==
    IF ~userSuppliedAnyAuth(rq.jwt, rq.csrfCookie, rq.csrfHeader)
    THEN [rq EXCEPT !.responses = IF rq.sendResOnFail
                                  THEN Append(@, [status |-> 401, errorType |-> "notLoggedIn"])
                                  ELSE @,
                    !.status = 401,
                    !.errorType = "notLoggedIn",
                    !.result = "fail",
                    !.pc = "done"]
    ELSE IF rq.jwt # Absent /\ jwtVerify(rq.jwt) = Absent
    THEN onAuthFailure(rq, 401, "verification")
    ELSE LET b == [rq EXCEPT !.loginSessionUUID = IF rq.jwt # Absent THEN jwtVerify(rq.jwt) ELSE Absent]
         IN  IF incompleteAuth(rq.jwt, rq.csrfCookie, rq.csrfHeader)
             THEN onAuthFailure(b, 401, "incompleteAuth")
             ELSE [b EXCEPT !.pc = "findLogin"]

\* mutant: the isCanceled flag is not looked at
loginSessionCheckIgnoreCanceled(loginSession, t) ==
    IF ~loginSession.found THEN "loginSessionNotFound"
    ELSE IF t >= loginSession.expiresAt THEN "sessionExpired"
    ELSE "ok"

\* mutant: cancellation is tested before expiry
loginSessionCheckCanceledFirst(loginSession, t) ==
    IF ~loginSession.found THEN "loginSessionNotFound"
    ELSE IF loginSession.isCanceled THEN "sessionCanceled"
    ELSE IF t >= loginSession.expiresAt THEN "sessionExpired"
    ELSE "ok"

\* mutant: the expiry comparison points the other way
loginSessionCheckFlipped(loginSession, t) ==
    IF ~loginSession.found THEN "loginSessionNotFound"
    ELSE IF t <= loginSession.expiresAt THEN "sessionExpired"
    ELSE IF loginSession.isCanceled THEN "sessionCanceled"
    ELSE "ok"

\* the checks on the LoginSession found: "ok", or the errorType of the failure
loginSessionCheck(loginSession, t) ==
    IF ~loginSession.found THEN "loginSessionNotFound"
    ELSE IF t >= loginSession.expiresAt THEN "sessionExpired"
    ELSE IF loginSession.isCanceled THEN "sessionCanceled"
    ELSE "ok"

\* mutant: the owners of the two sessions are not compared
csrfSessionCheckNoOwner(csrfSession, clientId, t) ==
    IF ~csrfSession.found THEN "csrfSessionNotFound"
    ELSE IF t >= csrfSession.expiresAt THEN "sessionExpired"
    ELSE "ok"

\* the checks on the CSRFSession found: "ok", or the errorType of the failure
csrfSessionCheck(csrfSession, clientId, t) ==
    IF ~csrfSession.found THEN "csrfSessionNotFound"
    ELSE IF t >= csrfSession.expiresAt THEN "sessionExpired"
    ELSE IF csrfSession.clientId # clientId THEN "verification"
    ELSE "ok"

\* mutant: the LoginSession is deleted without the grace delay
deleteLoginSessionNow(ts, rq, t) ==
    ts \cup {[store |-> "login", uuid |-> rq.loginSessionUUID, by |-> rq.id, at |-> t, fireAt |-> t]}

\* mutant: the deferred deletion of the LoginSession is not scheduled
deleteLoginSessionNever(ts, rq, t) == ts

\* deleteLoginSessionSoon, deleteCSRFSessionSoon: one timer each, due after the grace delay
deleteLoginSessionSoon(ts, rq, t) ==
    ts \cup {[store |-> "login", uuid |-> rq.loginSessionUUID, by |-> rq.id, at |-> t, fireAt |-> t + GraceDelay]}

\* mutant: the CSRFSession is deleted without the grace delay
deleteCSRFSessionNow(ts, rq, t) ==
    ts \cup {[store |-> "csrf", uuid |-> rq.csrfSessionUUID, by |-> rq.id, at |-> t, fireAt |-> t]}

deleteCSRFSessionSoon(ts, rq, t) ==
    ts \cup {[store |-> "csrf", uuid |-> rq.csrfSessionUUID, by |-> rq.id, at |-> t, fireAt |-> t + GraceDelay]}

\* mutant: authCheckHelper clears the cookies itself before it returns the identity
authCheckHelperSuccessClears(rq) ==
    IF rq.mode = "gate"
    THEN [rq EXCEPT !.result = "success", !.cleared = @ \cup AuthCookies, !.pc = "getClient"]
    ELSE [rq EXCEPT !.result = "success", !.cleared = @ \cup AuthCookies, !.pc = "done"]

\* authCheckHelper returns { clientId, loginSessionUUID, csrfSessionUUID }; in authCheck
\* the code up to the await of getClient follows: both cookies are cleared
authCheckHelperSuccess(rq) ==
    IF rq.mode = "gate"
    THEN [rq EXCEPT !.result = "success", !.cleared = @ \cup AuthCookies, !.pc = "getClient"]
    ELSE [rq EXCEPT !.result = "success", !.pc = "done"]

\* the identity a successful authCheckHelper returns
Identity(rq) ==
    [clientId |-> rq.loginSession.clientId,
     loginSessionUUID |-> rq.loginSessionUUID,
     csrfSessionUUID |-> rq.csrfSessionUUID]


Init ==
    /\ now = 0
    /\ nextId = 1
    /\ loginStore = <<>>
    /\ csrfStore = <<>>
    /\ timers = {}
    /\ req = [s \in {1} |-> Idle]
    /\ issued = <<>>
    /\ scheduled = {}
    /\ purged = {}
    /\ fired = {}
    /\ nreq = 0

\* what a client can send: nothing, a value that names nothing, or a value issued before
Tokens == {Absent, Bogus} \cup (1..(nextId - 1))

CsrfValues == {Absent, Bogus} \cup (1..(nextId - 1))

\* the auth_csrf cookie: none, the value of the header, or another value
CsrfCookies(H) == {Absent, Bogus, H}

\* a finished request leaves before anything else happens
NoneDone == Sequential => \A s \in Slots : req[s].pc # "done"

\* Steps of a request that commute with what happens around it are taken first.
\* A login or a cancellation while a request is in flight is seen by that request as
\* one before it arrived; a timer is interleaved where the request is about to read a
\* store; the clock ticks where the request is about to read it or a timer may fire.
AllIdle == \A s \in Slots : req[s].pc = "idle"

EnvAllowed == Sequential => \A s \in Slots : req[s].pc \in {"idle", "findCSRF"}

TickAllowed ==
    Sequential => \A s \in Slots : req[s].pc \in {"idle", "checkLogin", "findCSRF", "checkCSRF", "newSession"}

\* newSession(clientId) of createSessionAndSetCookies: the pair nextId is created for
\* clientId; by is the id of the request the gate creates it for, Idle.id at a login
newSession(clientId, by) ==
    /\ loginStore' = newLoginSession(loginStore, nextId, clientId, now)
    /\ csrfStore' = newCSRFSession(csrfStore, nextId, clientId, now)
    /\ issued' = Append(issued, [clientId |-> clientId, at |-> now, by |-> by])
    /\ nextId' = nextId + 1

\* mutant: the auth_csrf cookie is not set
setCookiesJwtOnly(rq, uuid) ==
    [rq EXCEPT !.cookies = [auth_jwt |-> uuid]]

\* res.cookie("auth_jwt", token), res.cookie("auth_csrf", csrfSessionUUID)
setCookies(rq, uuid) ==
    [rq EXCEPT !.cookies = [auth_jwt |-> uuid, auth_csrf |-> uuid]]

Arrival(s, mode, path, sendResOnFail, deleteCookiesOnFail, T, C, H) ==
    [Idle EXCEPT !.id = nreq + 1, !.arrivedAt = now, !.mode = mode, !.path = path,
                 !.sendResOnFail = sendResOnFail, !.deleteCookiesOnFail = deleteCookiesOnFail,
                 !.jwt = T, !.csrfCookie = C, !.csrfHeader = H]

\* authCheck(req, res, next) up to its first await
authCheck(s) ==
    /\ NoneDone
    /\ nreq < MaxRequests
    /\ nreq' = nreq + 1
    /\ req[s].pc = "idle"
    /\ \A s2 \in Slots : s2 < s => req[s2].pc # "idle"
    /\ \E path \in Paths, T \in Tokens, H \in CsrfValues : \E C \in CsrfCookies(H) :
        LET rq == Arrival(s, "gate", path, TRUE, TRUE, T, C, H)
        IN  IF path \in exemptEndpoints
            THEN req' = [req EXCEPT ![s] = [rq EXCEPT !.mode = "exempt", !.nextCalls = @ + 1, !.pc = "done"]]
            ELSE req' = [req EXCEPT ![s] = authCheckHelperStart(rq)]
    /\ UNCHANGED <<now, nextId, loginStore, csrfStore, timers, issued, scheduled, purged, fired>>

\* the options of the other callers of authCheckHelper; with both set the call is the gate's
HelperOptions == {<<FALSE, FALSE>>, <<TRUE, FALSE>>, <<FALSE, TRUE>>}

\* authCheckHelper(req, res, options) called by another handler, up to its first await
authCheckHelper(s) ==
    /\ NoneDone
    /\ nreq < MaxRequests
    /\ nreq' = nreq + 1
    /\ req[s].pc = "idle"
    /\ \A s2 \in Slots : s2 < s => req[s2].pc # "idle"
    /\ \E options \in HelperOptions, T \in Tokens, H \in CsrfValues : \E C \in CsrfCookies(H) :
        req' = [req EXCEPT ![s] =
                  authCheckHelperStart(Arrival(s, "helper", "", options[1], options[2], T, C, H))]
    /\ UNCHANGED <<now, nextId, loginStore, csrfStore, timers, issued, scheduled, purged, fired>>

\* the request after findLoginSession(loginSessionUUID) has answered from store ls, or
\* has thrown (err)
FindLoginSessionStep(rq, ls, err) ==
    IF err
    THEN onAuthFailure(LogError(rq, "findLoginSession"), 500, "database")
    ELSE [Log(rq, "findLoginSession") EXCEPT
             !.loginSession = findLoginSession(ls, rq.loginSessionUUID),
             !.pc = "checkLogin"]

\* await findLoginSession(loginSessionUUID), and the catch clause
FindLoginSession(s) ==
    /\ NoneDone
    /\ req[s].pc = "findLogin"
    /\ \E err \in BOOLEAN :
        req' = [req EXCEPT ![s] = FindLoginSessionStep(req[s], loginStore, err)]
    /\ UNCHANGED <<now, nextId, loginStore, csrfStore, timers, issued, nreq, scheduled, purged, fired>>

\* the request after the checks of the LoginSession found, made at time t
CheckLoginSessionStep(rq, t) ==
    LET c == loginSessionCheck(rq.loginSession, t)
        a == [rq EXCEPT !.loginFresh = rq.loginSession.found /\ t < rq.loginSession.expiresAt]
    IN  IF c = "ok" THEN [a EXCEPT !.pc = "findCSRF"] ELSE onAuthFailure(a, 401, c)

\* the code after findLoginSession has answered, up to the await of findCSRFSession
CheckLoginSession(s) ==
    /\ NoneDone
    /\ req[s].pc = "checkLogin"
    /\ req' = [req EXCEPT ![s] = CheckLoginSessionStep(req[s], now)]
    /\ UNCHANGED <<now, nextId, loginStore, csrfStore, timers, issued, nreq, scheduled, purged, fired>>

\* mutant: findCSRFSession is awaited outside a try block, its error leaves the function
FindCSRFSessionUncaught(s) ==
    /\ NoneDone
    /\ req[s].pc = "findCSRF"
    /\ \E err \in BOOLEAN :
        req' = [req EXCEPT ![s] =
                  IF err
                  THEN [LogError(req[s], "findCSRFSession") EXCEPT !.pc = "thrown"]
                  ELSE [Log(req[s], "findCSRFSession") EXCEPT
                           !.csrfSession = findCSRFSession(csrfStore, req[s].csrfHeader),
                           !.pc = "checkCSRF"]]
    /\ UNCHANGED <<now, nextId, loginStore, csrfStore, timers, issued, nreq, scheduled, purged, fired>>

\* mutant: the CSRFSession is looked up by the value of the auth_csrf cookie
FindCSRFSessionStepByCookie(rq, cs, err) ==
    IF err
    THEN onAuthFailure(LogError(rq, "findCSRFSession"), 500, "database")
    ELSE [Log(rq, "findCSRFSession") EXCEPT
             !.csrfSession = findCSRFSession(cs, rq.csrfCookie),
             !.pc = "checkCSRF"]

\* mutant: csrfSessionUUID is set from the header before the lookup
FindCSRFSessionStepKeySet(rq, cs, err) ==
    LET a == [rq EXCEPT !.csrfSessionUUID = rq.csrfHeader]
    IN  IF err
        THEN onAuthFailure(LogError(a, "findCSRFSession"), 500, "database")
        ELSE [Log(rq, "findCSRFSession") EXCEPT
                 !.csrfSession = findCSRFSession(cs, rq.csrfHeader),
                 !.pc = "checkCSRF"]

\* the request after findCSRFSession(authCSRFHeader) has answered from store cs, or has
\* thrown (err)
FindCSRFSessionStep(rq, cs, err) ==
    IF err
    THEN onAuthFailure(LogError(rq, "findCSRFSession"), 500, "database")
    ELSE [Log(rq, "findCSRFSession") EXCEPT
             !.csrfSession = findCSRFSession(cs, rq.csrfHeader),
             !.pc = "checkCSRF"]

\* await findCSRFSession(authCSRFHeader), and the catch clause
FindCSRFSession(s) ==
    /\ NoneDone
    /\ req[s].pc = "findCSRF"
    /\ \E err \in BOOLEAN :
        req' = [req EXCEPT ![s] = FindCSRFSessionStep(req[s], csrfStore, err)]
    /\ UNCHANGED <<now, nextId, loginStore, csrfStore, timers, issued, nreq, scheduled, purged, fired>>

\* the request after the checks of the CSRFSession found, made at time t
CheckCSRFSessionStep(rq, t) ==
    LET c == csrfSessionCheck(rq.csrfSession, rq.loginSession.clientId, t)
        a == [rq EXCEPT !.csrfFresh = rq.csrfSession.found /\ t < rq.csrfSession.expiresAt]
        b == [a EXCEPT !.csrfSessionUUID = a.csrfSession.uuid]
    IN  IF c = "csrfSessionNotFound" THEN onAuthFailure(a, 401, c)
        ELSE IF c # "ok" THEN onAuthFailure(b, 401, c)
        ELSE authCheckHelperSuccess(b)

\* the code after findCSRFSession has answered: failure, or the identity is returned;
\* in authCheck the two deferred deletions are scheduled and the cookies cleared
CheckCSRFSession(s) ==
    /\ NoneDone
    /\ req[s].pc = "checkCSRF"
    /\ LET c == csrfSessionCheck(req[s].csrfSession, req[s].loginSession.clientId, now)
           b == [req[s] EXCEPT !.csrfSessionUUID = req[s].csrfSession.uuid]
       IN  /\ req' = [req EXCEPT ![s] = CheckCSRFSessionStep(req[s], now)]
           /\ timers' = IF c = "ok" /\ req[s].mode = "gate"
                        THEN deleteCSRFSessionSoon(deleteLoginSessionSoon(timers, b, now), b, now)
                        ELSE timers
           /\ scheduled' = IF c = "ok" /\ req[s].mode = "gate"
                           THEN scheduled \cup
                                {[store |-> "login", uuid |-> b.loginSessionUUID, at |-> now, by |-> b.id],
                                 [store |-> "csrf", uuid |-> b.csrfSessionUUID, at |-> now, by |-> b.id]}
                           ELSE scheduled
    /\ UNCHANGED <<now, nextId, loginStore, csrfStore, issued, nreq, purged, fired>>

\* onAuthFailure after deleteLoginSession(loginSessionUUID) has answered or thrown
DeleteLoginStep(rq, err) ==
    onAuthFailureCSRF(IF err THEN LogError(rq, "deleteLoginSession") ELSE Log(rq, "deleteLoginSession"))

\* onAuthFailure after deleteCSRFSession(csrfSessionUUID) has answered or thrown
DeleteCSRFStep(rq, err) ==
    onAuthFailureReturn(IF err THEN LogError(rq, "deleteCSRFSession") ELSE Log(rq, "deleteCSRFSession"))

\* mutant: an error of deleteLoginSession is not caught but reported as the failure
DeleteLoginOnFailEscalates(s) ==
    /\ NoneDone
    /\ req[s].pc = "failDeleteLogin"
    /\ \E err \in BOOLEAN :
        /\ loginStore' = IF err THEN loginStore ELSE deleteSession(loginStore, req[s].loginSessionUUID)
        /\ purged' = IF err THEN purged
                      ELSE purged \cup {[store |-> "login", uuid |-> req[s].loginSessionUUID, by |-> req[s].id]}
        /\ req' = [req EXCEPT ![s] =
                     IF err
                     THEN onAuthFailureReturn([LogError(req[s], "deleteLoginSession") EXCEPT
                                                  !.status = 500, !.errorType = "database"])
                     ELSE onAuthFailureCSRF(Log(req[s], "deleteLoginSession"))]
    /\ UNCHANGED <<now, nextId, csrfStore, timers, issued, nreq, scheduled, fired>>

\* onAuthFailure: await deleteLoginSession(loginSessionUUID), errors caught
DeleteLoginOnFail(s) ==
    /\ NoneDone
    /\ req[s].pc = "failDeleteLogin"
    /\ \E err \in BOOLEAN :
        /\ loginStore' = IF err THEN loginStore ELSE deleteSession(loginStore, req[s].loginSessionUUID)
        /\ purged' = IF err THEN purged
                      ELSE purged \cup {[store |-> "login", uuid |-> req[s].loginSessionUUID, by |-> req[s].id]}
        /\ req' = [req EXCEPT ![s] = DeleteLoginStep(req[s], err)]
    /\ UNCHANGED <<now, nextId, csrfStore, timers, issued, nreq, scheduled, fired>>

\* onAuthFailure: await deleteCSRFSession(csrfSessionUUID), errors caught
DeleteCSRFOnFail(s) ==
    /\ NoneDone
    /\ req[s].pc = "failDeleteCSRF"
    /\ \E err \in BOOLEAN :
        /\ csrfStore' = IF err THEN csrfStore ELSE deleteSession(csrfStore, req[s].csrfSessionUUID)
        /\ purged' = IF err THEN purged
                      ELSE purged \cup {[store |-> "csrf", uuid |-> req[s].csrfSessionUUID, by |-> req[s].id]}
        /\ req' = [req EXCEPT ![s] = DeleteCSRFStep(req[s], err)]
    /\ UNCHANGED <<now, nextId, loginStore, timers, issued, nreq, scheduled, fired>>

\* authCheck: await getClient({ clientId })
GetClient(s) ==
    /\ NoneDone
    /\ req[s].pc = "getClient"
    /\ \E answer \in {"user", "noUser", "error"} :
        req' = [req EXCEPT ![s] =
                  IF answer = "user" THEN [Log(req[s], "getClient") EXCEPT !.pc = "newSession"]
                  ELSE IF answer = "noUser" THEN Respond(Log(req[s], "getClient"), 500, "noUser")
                  ELSE Respond(LogError(req[s], "getClient"), 500, "database")]
    /\ UNCHANGED <<now, nextId, loginStore, csrfStore, timers, issued, nreq, scheduled, purged, fired>>

\* mutant: the id of the new LoginSession is attached instead of the validated one
reqAuthNewSession(rq) ==
    [clientId |-> rq.loginSession.clientId, loginSessionUUID |-> rq.cookies.auth_jwt]

\* req.auth = { clientId, loginSessionUUID }
reqAuth(rq) ==
    [clientId |-> rq.loginSession.clientId, loginSessionUUID |-> rq.loginSessionUUID]

\* authCheck: await createSessionAndSetCookies(user, res), then req.auth and next()
CreateSession(s) ==
    /\ NoneDone
    /\ req[s].pc = "newSession"
    /\ \/ /\ nextId <= SessionCap
          /\ newSession(req[s].loginSession.clientId, req[s].id)
          /\ req' = [req EXCEPT ![s] =
                       [setCookies(Log(req[s], "newSession"), nextId) EXCEPT
                           !.auth = reqAuth(setCookies(req[s], nextId)),
                           !.nextCalls = @ + 1,
                           !.pc = "done"]]
       \/ /\ req' = [req EXCEPT ![s] = Respond(LogError(req[s], "newSession"), 500, "database")]
          /\ UNCHANGED <<nextId, loginStore, csrfStore, issued>>
    /\ UNCHANGED <<now, timers, nreq, scheduled, purged, fired>>

\* the login endpoint: createSessionAndSetCookies(client, res) for a client that logged in
Login(clientId) ==
    /\ AllIdle
    /\ nextId <= MaxSessions
    /\ newSession(clientId, Idle.id)
    /\ UNCHANGED <<now, timers, req, nreq, scheduled, purged, fired>>

\* the logout action marks a LoginSession canceled
Cancel(uuid) ==
    /\ AllIdle
    /\ uuid \in DOMAIN loginStore
    /\ ~loginStore[uuid].isCanceled
    /\ loginStore' = [loginStore EXCEPT ![uuid].isCanceled = TRUE]
    /\ UNCHANGED <<now, nextId, csrfStore, timers, req, issued, nreq, scheduled, purged, fired>>

\* mutant: the callback deletes the id from both stores
TimerFireBothStores(t) ==
    /\ EnvAllowed
    /\ t \in timers
    /\ now >= t.fireAt
    /\ timers' = timers \ {t}
    /\ \E err \in BOOLEAN :
        /\ loginStore' = IF ~err THEN deleteSession(loginStore, t.uuid) ELSE loginStore
        /\ csrfStore' = IF ~err THEN deleteSession(csrfStore, t.uuid) ELSE csrfStore
        /\ fired' = fired \cup {[store |-> t.store, uuid |-> t.uuid, by |-> t.by,
                                 outcome |-> IF err THEN "error"
                                             ELSE IF t.uuid \in DOMAIN (IF t.store = "login" THEN loginStore ELSE csrfStore)
                                             THEN "deleted" ELSE "absent"]}
    /\ UNCHANGED <<now, nextId, req, issued, nreq, scheduled, purged>>

\* mutant: a callback whose deletion fails is scheduled again
TimerFireRetry(t) ==
    /\ EnvAllowed
    /\ t \in timers
    /\ now >= t.fireAt
    /\ \E err \in BOOLEAN :
        /\ timers' = IF err THEN timers ELSE timers \ {t}
        /\ loginStore' = IF ~err /\ t.store = "login" THEN deleteSession(loginStore, t.uuid) ELSE loginStore
        /\ csrfStore' = IF ~err /\ t.store = "csrf" THEN deleteSession(csrfStore, t.uuid) ELSE csrfStore
        /\ fired' = fired \cup {[store |-> t.store, uuid |-> t.uuid, by |-> t.by,
                                 outcome |-> IF err THEN "error"
                                             ELSE IF t.uuid \in DOMAIN (IF t.store = "login" THEN loginStore ELSE csrfStore)
                                             THEN "deleted" ELSE "absent"]}
    /\ UNCHANGED <<now, nextId, req, issued, nreq, scheduled, purged>>

\* the setTimeout callback of deleteLoginSessionSoon / deleteCSRFSessionSoon
TimerFire(t) ==
    /\ EnvAllowed
    /\ t \in timers
    /\ now >= t.fireAt
    /\ timers' = timers \ {t}
    /\ \E err \in BOOLEAN :
        /\ loginStore' = IF ~err /\ t.store = "login" THEN deleteSession(loginStore, t.uuid) ELSE loginStore
        /\ csrfStore' = IF ~err /\ t.store = "csrf" THEN deleteSession(csrfStore, t.uuid) ELSE csrfStore
        /\ fired' = fired \cup {[store |-> t.store, uuid |-> t.uuid, by |-> t.by,
                                 outcome |-> IF err THEN "error"
                                             ELSE IF t.uuid \in DOMAIN (IF t.store = "login" THEN loginStore ELSE csrfStore)
                                             THEN "deleted" ELSE "absent"]}
    /\ UNCHANGED <<now, nextId, req, issued, nreq, scheduled, purged>>

\* the response has gone out: the handler's frame is dropped
Retire(s) ==
    /\ req[s].pc = "done"
    /\ req' = [req EXCEPT ![s] = Idle]
    /\ UNCHANGED <<now, nextId, loginStore, csrfStore, timers, issued, nreq, scheduled, purged, fired>>

Tick ==
    /\ TickAllowed
    /\ now < MaxTime
    /\ now' = now + 1
    /\ UNCHANGED <<nextId, loginStore, csrfStore, timers, req, issued, nreq, scheduled, purged, fired>>

Next ==
    \/ \E s \in Slots : authCheck(s)
    \/ \E s \in Slots : authCheckHelper(s)
    \/ \E s \in Slots : FindLoginSession(s)
    \/ \E s \in Slots : CheckLoginSession(s)
    \/ \E s \in Slots : FindCSRFSession(s)
    \/ \E s \in Slots : CheckCSRFSession(s)
    \/ \E s \in Slots : DeleteLoginOnFail(s)
    \/ \E s \in Slots : DeleteCSRFOnFail(s)
    \/ \E s \in Slots : GetClient(s)
    \/ \E s \in Slots : CreateSession(s)
    \/ \E c \in Clients : Login(c)
    \/ \E u \in SessionIds : Cancel(u)
    \/ \E t \in timers : TimerFire(t)
    \/ \E s \in Slots : Retire(s)
    \/ Tick

Spec == Init /\ [][Next]_vars

\* the request after the step of authCheckHelper it is waiting for, taken with the
\* stores ls and cs at time t, the store call of the step throwing when err
authCheckHelperNext(rq, ls, cs, t, err) ==
    CASE rq.pc = "findLogin" -> FindLoginSessionStep(rq, ls, err)
      [] rq.pc = "checkLogin" -> CheckLoginSessionStep(rq, t)
      [] rq.pc = "findCSRF" -> FindCSRFSessionStep(rq, cs, err)
      [] rq.pc = "checkCSRF" -> CheckCSRFSessionStep(rq, t)
      [] rq.pc = "failDeleteLogin" -> DeleteLoginStep(rq, err)
      [] rq.pc = "failDeleteCSRF" -> DeleteCSRFStep(rq, err)
      [] OTHER -> rq

\* one step of the validator for the request in slot s: a store call settles, with a
\* result or an error, and the code up to the next await or to the return runs
authCheckHelperStep(s) ==
    \/ FindLoginSession(s)
    \/ CheckLoginSession(s)
    \/ FindCSRFSession(s)
    \/ CheckCSRFSession(s)
    \/ DeleteLoginOnFail(s)
    \/ DeleteCSRFOnFail(s)

\* Two requests in flight at once: one pair has been issued to u1 by a login, and the
\* handlers of the two requests, the timers and the clock interleave step by step.
InitRace ==
    /\ now = 0
    /\ nextId = 2
    /\ loginStore = newLoginSession(<<>>, 1, "u1", 0)
    /\ csrfStore = newCSRFSession(<<>>, 1, "u1", 0)
    /\ timers = {}
    /\ req = [s \in {1, 2} |-> Idle]
    /\ issued = <<[clientId |-> "u1", at |-> 0, by |-> Idle.id]>>
    /\ scheduled = {}
    /\ purged = {}
    /\ fired = {}
    /\ nreq = 0

NextRace ==
    \/ \E s \in Slots : authCheck(s)
    \/ \E s \in Slots : FindLoginSession(s)
    \/ \E s \in Slots : CheckLoginSession(s)
    \/ \E s \in Slots : FindCSRFSession(s)
    \/ \E s \in Slots : CheckCSRFSession(s)
    \/ \E s \in Slots : DeleteLoginOnFail(s)
    \/ \E s \in Slots : DeleteCSRFOnFail(s)
    \/ \E s \in Slots : GetClient(s)
    \/ \E s \in Slots : CreateSession(s)
    \/ \E t \in timers : TimerFire(t)
    \/ Tick

SpecRace == InitRace /\ [][NextRace]_vars

\* Two calls of the validator in flight at once, from the gate or from another handler,
\* at any time of the life of the pair a login has issued
InitCalls ==
    /\ now \in 0..MaxTime
    /\ nextId = 2
    /\ loginStore = newLoginSession(<<>>, 1, "u1", 0)
    /\ csrfStore = newCSRFSession(<<>>, 1, "u1", 0)
    /\ timers = {}
    /\ req = [s \in {1, 2} |-> Idle]
    /\ issued = <<[clientId |-> "u1", at |-> 0, by |-> Idle.id]>>
    /\ scheduled = {}
    /\ purged = {}
    /\ fired = {}
    /\ nreq = 0

NextCalls ==
    \/ \E s \in Slots : authCheck(s)
    \/ \E s \in Slots : authCheckHelper(s)
    \/ \E s \in Slots : authCheckHelperStep(s)
    \/ \E s \in Slots : GetClient(s)
    \/ \E s \in Slots : CreateSession(s)

\* every store call settles and the event loop runs the continuation of a settled call
FairSpec ==
    /\ InitCalls /\ [][NextCalls]_vars
    /\ \A s \in 1..MaxRequests : WF_vars(s \in Slots /\ authCheckHelperStep(s))

\* ------------------------------------------------------------ the claims
\* the validator has been called for the request in slot s
Active(s) == req[s].pc # "idle" /\ req[s].mode \in {"gate", "helper"}

Did(rq, op) == \E k \in 1..Len(rq.ops) : rq.ops[k] = op

NoLookupError(rq) == "findLoginSession" \notin rq.errs /\ "findCSRFSession" \notin rq.errs

\* findLoginSession has answered and the code after it has run
LoginChecked(rq) ==
    Did(rq, "findLoginSession") /\ "findLoginSession" \notin rq.errs /\ rq.pc # "checkLogin"

\* findCSRFSession has answered and the code after it has run
CSRFChecked(rq) ==
    Did(rq, "findCSRFSession") /\ "findCSRFSession" \notin rq.errs /\ rq.pc # "checkCSRF"

AllPresent(rq) == rq.jwt # Absent /\ rq.csrfCookie # Absent /\ rq.csrfHeader # Absent

NonePresent(rq) == rq.jwt = Absent /\ rq.csrfCookie = Absent /\ rq.csrfHeader = Absent

\* the stores hold, now, a usable LoginSession under the token and a usable CSRFSession
\* of the same owner under the header
StoreValid(rq) ==
    /\ rq.jwt \in DOMAIN loginStore
    /\ now < loginStore[rq.jwt].expiresAt
    /\ ~loginStore[rq.jwt].isCanceled
    /\ rq.csrfHeader \in DOMAIN csrfStore
    /\ now < csrfStore[rq.csrfHeader].expiresAt
    /\ csrfStore[rq.csrfHeader].clientId = loginStore[rq.jwt].clientId

\* C1: a request the validator accepts carried a verifying token whose LoginSession,
\* as looked up, existed, was unexpired and not canceled, and a header whose
\* CSRFSession, as looked up, existed, was unexpired and had the same owner
C1_AuthSound ==
    \A s \in Slots : req[s].result = "success" =>
        /\ req[s].jwt >= 1
        /\ Did(req[s], "findLoginSession")
        /\ req[s].loginSession.found
        /\ req[s].loginSession.uuid = req[s].jwt
        /\ req[s].loginFresh
        /\ ~req[s].loginSession.isCanceled
        /\ Did(req[s], "findCSRFSession")
        /\ req[s].csrfSession.found
        /\ req[s].csrfSession.uuid = req[s].csrfHeader
        /\ req[s].csrfFresh
        /\ req[s].csrfSession.clientId = req[s].loginSession.clientId

C1_Witness ==
    \E s \in Slots : req[s].pc = "done" /\ req[s].result = "success" /\ req[s].mode = "helper"

\* C2 as stated: a request whose token names a usable LoginSession and whose header names
\* a usable CSRFSession of the same owner is never failed, store lookup errors aside
C2_AuthComplete_Original ==
    \A s \in Slots :
        (Active(s) /\ req[s].jwt >= 1 /\ StoreValid(req[s]) /\ NoLookupError(req[s])) =>
            /\ req[s].errorType = ""
            /\ req[s].pc = "done" => req[s].result = "success"

\* C2 amended: such a request is accepted provided it also carries the auth_csrf cookie
C2_AuthComplete ==
    \A s \in Slots :
        (Active(s) /\ AllPresent(req[s]) /\ req[s].jwt >= 1 /\ StoreValid(req[s])
            /\ NoLookupError(req[s])) =>
            /\ req[s].errorType = ""
            /\ req[s].pc = "done" => req[s].result = "success"

C2_Witness ==
    \E s \in Slots :
        /\ Active(s) /\ AllPresent(req[s]) /\ StoreValid(req[s])
        /\ req[s].csrfCookie # req[s].csrfHeader
        /\ req[s].pc = "done" /\ req[s].result = "success"

\* C3: a request with no auth_jwt cookie, no auth_csrf cookie and no auth_csrf header is
\* failed with notLoggedIn and 401 at once: no store operation, no deletion, no cookie cleared
C3_NotLoggedIn ==
    \A s \in Slots :
        (Active(s) /\ NonePresent(req[s])) =>
            /\ req[s].pc = "done"
            /\ req[s].result = "fail"
            /\ req[s].errorType = "notLoggedIn"
            /\ req[s].status = 401
            /\ req[s].responses = IF req[s].sendResOnFail
                                  THEN <<[status |-> 401, errorType |-> "notLoggedIn"]>>
                                  ELSE <<>>
            /\ req[s].ops = <<>>
            /\ req[s].cleared = {}
            /\ \A p \in purged : p.by # req[s].id
            /\ \A e \in scheduled : e.by # req[s].id

C3_Witness ==
    \E s \in Slots : Active(s) /\ NonePresent(req[s]) /\ req[s].mode = "gate" /\ nextId > 1

\* C4 as stated: some but not all of the three parts present gives incompleteAuth
C4_Incomplete_Original ==
    \A s \in Slots :
        (Active(s) /\ ~NonePresent(req[s]) /\ ~AllPresent(req[s])) =>
            /\ req[s].errorType = "incompleteAuth"
            /\ req[s].status = 401

\* C4 amended: some but not all of the three parts present gives incompleteAuth (401),
\* unless a token is among them and fails verification
C4_Incomplete ==
    \A s \in Slots :
        (Active(s) /\ ~NonePresent(req[s]) /\ ~AllPresent(req[s]) /\ req[s].jwt # Bogus) =>
            /\ req[s].errorType = "incompleteAuth"
            /\ req[s].status = 401
            /\ req[s].pc = "done" => req[s].result = "fail"

C4_Witness ==
    \E s \in Slots :
        /\ Active(s) /\ req[s].jwt >= 1 /\ req[s].csrfCookie = Absent /\ req[s].csrfHeader >= 1
        /\ StoreValid(req[s])
        /\ req[s].errorType = "incompleteAuth"

\* C5: a token that does not verify gives verification (401) at once, with no store
\* operation of any kind
C5_BadToken ==
    \A s \in Slots :
        (Active(s) /\ req[s].jwt = Bogus) =>
            /\ req[s].pc = "done"
            /\ req[s].result = "fail"
            /\ req[s].errorType = "verification"
            /\ req[s].status = 401
            /\ req[s].ops = <<>>
            /\ \A p \in purged : p.by # req[s].id

C5_Witness ==
    \E s \in Slots :
        /\ Active(s) /\ req[s].jwt = Bogus /\ req[s].csrfHeader \in DOMAIN csrfStore
        /\ req[s].csrfCookie = req[s].csrfHeader

\* C6: a LoginSession found expired gives sessionExpired whether or not it is canceled;
\* sessionCanceled is given only for one that is unexpired and canceled
C6_ExpiryFirst ==
    \A s \in Slots :
        (Active(s) /\ LoginChecked(req[s]) /\ req[s].loginSession.found) =>
            /\ ~req[s].loginFresh => req[s].errorType = "sessionExpired"
            /\ req[s].errorType = "sessionCanceled" =>
                   req[s].loginFresh /\ req[s].loginSession.isCanceled
            /\ (req[s].loginFresh /\ req[s].loginSession.isCanceled) =>
                   req[s].errorType = "sessionCanceled"

C6_Witness ==
    \E s \in Slots :
        /\ Active(s) /\ LoginChecked(req[s]) /\ req[s].loginSession.found
        /\ ~req[s].loginFresh /\ req[s].loginSession.isCanceled
        /\ req[s].pc = "done"

\* C7: both sessions found, unexpired, the LoginSession not canceled, and the owners
\* differ: the outcome is verification (401) and never success
C7_OwnerMismatch ==
    \A s \in Slots :
        (/\ Active(s) /\ LoginChecked(req[s]) /\ CSRFChecked(req[s])
         /\ req[s].loginSession.found /\ req[s].loginFresh /\ ~req[s].loginSession.isCanceled
         /\ req[s].csrfSession.found /\ req[s].csrfFresh
         /\ req[s].csrfSession.clientId # req[s].loginSession.clientId) =>
            /\ req[s].errorType = "verification"
            /\ req[s].status = 401
            /\ req[s].result # "success"

C7_Witness ==
    \E s \in Slots :
        /\ Active(s) /\ CSRFChecked(req[s])
        /\ req[s].csrfSession.found /\ req[s].csrfFresh
        /\ req[s].csrfSession.clientId # req[s].loginSession.clientId
        /\ req[s].pc = "done"

\* the request carries pair uuid: its token, its csrf value as cookie and as header
Carries(rq, uuid) == rq.jwt = uuid /\ rq.csrfCookie = uuid /\ rq.csrfHeader = uuid

\* nothing but this request has removed a session of pair uuid after a failure
NotPurgedByOthers(rq, uuid) == \A p \in purged : p.uuid = uuid => p.by = rq.id

\* C8: a pair issued for an owner and presented at once (no tick, no cancellation, no
\* failed validation of it in between, no lookup error) is accepted, with that owner
C8_RoundTrip ==
    \A s \in Slots : \A u \in 1..(nextId - 1) :
        (/\ Active(s) /\ Carries(req[s], u) /\ req[s].pc = "done"
         /\ issued[u].at = now
         /\ NoLookupError(req[s])
         /\ req[s].loginSession.found => ~req[s].loginSession.isCanceled
         /\ NotPurgedByOthers(req[s], u)) =>
            /\ req[s].result = "success"
            /\ Identity(req[s]).clientId = issued[u].clientId
            /\ Identity(req[s]).loginSessionUUID = u

C8_Witness ==
    \E s \in Slots : \E u \in 1..(nextId - 1) :
        /\ Active(s) /\ Carries(req[s], u) /\ req[s].pc = "done"
        /\ issued[u].at = now /\ issued[u].clientId = "u1"
        /\ req[s].result = "success"

\* C9: a pair validated by the gate after the LoginSession has expired gives
\* sessionExpired, both cookies cleared, and neither session of the pair is left
C9_ExpiredBothDeleted ==
    \A s \in Slots : \A u \in 1..(nextId - 1) :
        (/\ Active(s) /\ req[s].mode = "gate" /\ Carries(req[s], u) /\ req[s].pc = "done"
         /\ req[s].errs = {}
         /\ req[s].loginSession.found /\ ~req[s].loginFresh) =>
            /\ req[s].errorType = "sessionExpired"
            /\ req[s].cleared = AuthCookies
            /\ u \notin DOMAIN loginStore
            /\ u \notin DOMAIN csrfStore

\* the gate has validated pair uuid for a request other than rq, and the grace delay
\* of no deferred deletion of the pair has elapsed
InGraceWindow(rq, uuid) ==
    /\ \E e \in scheduled : e.uuid = uuid /\ e.store = "login" /\ e.by # rq.id
    /\ \E e \in scheduled : e.uuid = uuid /\ e.store = "csrf" /\ e.by # rq.id
    /\ \A e \in scheduled : e.uuid = uuid => now < e.at + GraceDelay

AfterGrace(rq, uuid) ==
    \E by \in 1..nreq :
        /\ by # rq.id
        /\ \A store \in {"login", "csrf"} :
              \E e \in scheduled : /\ e.uuid = uuid /\ e.store = store /\ e.by = by
                                   /\ rq.arrivedAt >= e.at + GraceDelay

\* every deferred deletion scheduled for pair uuid has run
DeletionsRan(uuid) == \A t \in timers : t.uuid # uuid

\* ... and none of them met a store error
DeletionsClean(uuid) == \A f \in fired : f.uuid = uuid => f.outcome # "error"

MetAbsent(f) ==
    \/ f.store = "login" /\ f.uuid \notin DOMAIN loginStore
    \/ f.store = "csrf" /\ f.uuid \notin DOMAIN csrfStore

\* C12: a deferred deletion that fires for an id no longer in its store, or that meets
\* a store error, changes neither store and no request, and is not tried again
C12_TimerIdempotent ==
    [][\A f \in fired' \ fired :
          (MetAbsent(f) \/ f.outcome = "error") =>
              /\ loginStore' = loginStore
              /\ csrfStore' = csrfStore
              /\ req' = req
              /\ timers' \subseteq timers /\ timers' # timers]_vars

C12_Witness ==
    /\ \E f \in fired : /\ f.outcome = "absent"
                        /\ \E g \in fired : g.store = f.store /\ g.uuid = f.uuid /\ g.outcome = "deleted"
    /\ \E f \in fired : f.outcome = "error"

\* C13: when the validator has failed a request whose token verified, whatever the
\* failure and the flags, the delete of the LoginSession the token names has been
\* called, and unless that delete met a store error the LoginSession is not in the store
C13_LoginDeletedOnFail ==
    \A s \in Slots :
        (Active(s) /\ req[s].pc = "done" /\ req[s].result = "fail" /\ req[s].jwt >= 1) =>
            /\ req[s].loginSessionUUID = req[s].jwt
            /\ Did(req[s], "deleteLoginSession")
            /\ "deleteLoginSession" \notin req[s].errs =>
                   /\ req[s].jwt \notin DOMAIN loginStore
                   /\ \E p \in purged : p.store = "login" /\ p.uuid = req[s].jwt /\ p.by = req[s].id

C13_Witness ==
    \E s \in Slots :
        /\ Active(s) /\ req[s].pc = "done" /\ req[s].result = "fail" /\ req[s].jwt >= 1
        /\ req[s].mode = "helper" /\ ~req[s].sendResOnFail /\ ~req[s].deleteCookiesOnFail
        /\ req[s].errorType = "incompleteAuth"
        /\ req[s].loginSession = NotFound
        /\ req[s].jwt \notin DOMAIN loginStore
        /\ req[s].jwt \in DOMAIN csrfStore

\* C14: a step of the failure cleanup in which the delete meets a store error leaves the
\* status and errorType decided before; once the validator returns, it returns failure
\* and the response, when asked for, is that status and errorType; and after an error
\* of deleteLoginSession the delete of a resolved CSRFSession is still called
C14_CleanupErrorKeepsOutcome ==
    [][\A s \in Slots :
          (req[s].pc \in {"failDeleteLogin", "failDeleteCSRF"} /\ req'[s].errs # req[s].errs) =>
              /\ req'[s].status = req[s].status
              /\ req'[s].errorType = req[s].errorType
              /\ req'[s].result # "success"
              /\ req'[s].pc = "done" =>
                     /\ req'[s].result = "fail"
                     /\ req'[s].responses = IF req[s].sendResOnFail
                                            THEN <<[status |-> req[s].status, errorType |-> req[s].errorType]>>
                                            ELSE <<>>
                     /\ req[s].csrfSessionUUID # Absent => Did(req'[s], "deleteCSRFSession")
              /\ (req[s].pc = "failDeleteLogin" /\ req[s].csrfSessionUUID # Absent) =>
                     req'[s].pc = "failDeleteCSRF"]_vars

C14_Witness ==
    \E s \in Slots :
        /\ Active(s) /\ req[s].pc = "done" /\ req[s].result = "fail"
        /\ req[s].errs = {"deleteLoginSession", "deleteCSRFSession"}
        /\ req[s].responses = <<[status |-> 401, errorType |-> "verification"]>>
        /\ req[s].loginSessionUUID \in DOMAIN loginStore
        /\ req[s].csrfSessionUUID \in DOMAIN csrfStore

\* the gate has answered the request in slot s with a failure response
Rejected(s) == req[s].mode = "gate" /\ req[s].pc = "done" /\ req[s].responses # <<>>

\* C15: a request the gate rejects has both cookies cleared, except that with
\* notLoggedIn no cookie is cleared
C15_CookiesCleared ==
    \A s \in Slots : Rejected(s) =>
        \A k \in 1..Len(req[s].responses) :
            req[s].cleared = IF req[s].responses[k].errorType = "notLoggedIn" THEN {} ELSE AuthCookies

C15_Witness ==
    \E s \in Slots :
        /\ Rejected(s)
        /\ req[s].responses[1].errorType = "loginSessionNotFound"
        /\ req[s].cleared = AuthCookies

\* C16: a failure response has status 500 when its errorType is database and status
\* 401 otherwise
C16_StatusByTag ==
    \A s \in Slots : \A k \in 1..Len(req[s].responses) :
        req[s].responses[k].status = IF req[s].responses[k].errorType = "database" THEN 500 ELSE 401

Taxonomy ==
    {"notLoggedIn", "incompleteAuth", "verification", "loginSessionNotFound",
     "csrfSessionNotFound", "sessionExpired", "sessionCanceled", "database"}

\* C17: the errorType of every failure response to a request the gate handles is one of
\* the eight tags of the taxonomy
C17_TaxonomyTags ==
    \A s \in Slots : req[s].mode = "gate" =>
        \A k \in 1..Len(req[s].responses) : req[s].responses[k].errorType \in Taxonomy

\* the exempt allowlist as the claim lists it
Allowlist == {"/", "/auth/register", "/auth/loggedInCheck", "/auth/login", "/auth/logout"}

\* C18: a request the gate receives on an allowlisted path is handed to the downstream
\* handler once, whatever it carries: no validation, no store operation, no deletion
\* made or scheduled, no cookie cleared or set, no response, no identity attached
C18_ExemptUntouched ==
    \A s \in Slots :
        (req[s].pc # "idle" /\ req[s].mode # "helper" /\ req[s].path \in Allowlist) =>
            /\ req[s].pc = "done"
            /\ req[s].nextCalls = 1
            /\ req[s].result = "pending"
            /\ req[s].ops = <<>>
            /\ req[s].responses = <<>>
            /\ req[s].cleared = {}
            /\ req[s].cookies = <<>>
            /\ req[s].auth = <<>>
            /\ \A e \in scheduled : e.by # req[s].id
            /\ \A t \in timers : t.by # req[s].id
            /\ \A p \in purged : p.by # req[s].id

C18_Witness ==
    \E s \in Slots :
        /\ req[s].pc = "done" /\ req[s].path = "/auth/login" /\ req[s].nextCalls = 1
        /\ AllPresent(req[s]) /\ req[s].jwt >= 1 /\ StoreValid(req[s])
        /\ \E t \in timers : t.uuid = req[s].jwt

\* C19: the gate calls the downstream handler for a validated request only, after
\* newSession has made a pair for the validated owner and both cookies carry it, and
\* without a response; when newSession fails the gate answers 500 database and does
\* not call the handler
C19_ForwardOnlyRotated ==
    \A s \in Slots : req[s].mode = "gate" =>
        /\ req[s].nextCalls > 0 =>
               /\ req[s].result = "success"
               /\ Did(req[s], "newSession") /\ "newSession" \notin req[s].errs
               /\ DOMAIN req[s].cookies = AuthCookies
               /\ req[s].cookies.auth_jwt \in DOMAIN issued
               /\ req[s].cookies.auth_csrf = req[s].cookies.auth_jwt
               /\ req[s].cookies.auth_jwt # req[s].jwt
               /\ issued[req[s].cookies.auth_jwt].clientId = req[s].loginSession.clientId
               /\ req[s].responses = <<>>
        /\ "newSession" \in req[s].errs =>
               /\ req[s].result = "success"
               /\ req[s].responses = <<[status |-> 500, errorType |-> "database"]>>
               /\ req[s].nextCalls = 0
               /\ req[s].pc = "done"

C19_Witness ==
    \E s \in Slots :
        /\ req[s].mode = "gate" /\ req[s].pc = "done" /\ req[s].nextCalls = 1
        /\ req[s].cookies.auth_jwt \in DOMAIN loginStore
        /\ req[s].cookies.auth_csrf \in DOMAIN csrfStore
        /\ req[s].loginSession.clientId = "u2"

\* C20: while the gate handles a request nothing has been sent and the downstream
\* handler has not been called; when it is through, either one failure response has
\* been sent and the handler not called, or the handler has been called once and no
\* response sent; after a failure of the validator the one response is the validator's
C20_ExactlyOne ==
    \A s \in Slots : req[s].mode = "gate" =>
        /\ req[s].pc # "done" => (req[s].responses = <<>> /\ req[s].nextCalls = 0)
        /\ req[s].pc = "done" =>
               \/ Len(req[s].responses) = 1 /\ req[s].nextCalls = 0
               \/ req[s].responses = <<>> /\ req[s].nextCalls = 1
        /\ (req[s].pc = "done" /\ req[s].result = "fail") =>
               /\ req[s].responses = <<[status |-> req[s].status, errorType |-> req[s].errorType]>>
               /\ req[s].nextCalls = 0
               /\ ~Did(req[s], "getClient") /\ ~Did(req[s], "newSession")

C20_Witness ==
    \E s \in Slots :
        /\ req[s].mode = "gate" /\ req[s].pc = "done" /\ req[s].result = "fail"
        /\ req[s].errorType = "sessionCanceled"
        /\ Len(req[s].responses) = 1

\* the gate has handed the request in slot s to the downstream handler
Forwarded(s) == req[s].mode = "gate" /\ req[s].pc = "done" /\ req[s].nextCalls > 0

\* C21: when the gate has forwarded a request, the auth_jwt cookie names a LoginSession
\* and the auth_csrf cookie a CSRFSession that were created just now, are not the ones
\* the request carried and belong to the validated owner, and req.auth holds the owner
\* and the id of the LoginSession that was validated
C21_NewCookiesAndIdentity ==
    \A s \in Slots : Forwarded(s) =>
        LET n == req[s].cookies.auth_jwt
            c == req[s].cookies.auth_csrf
        IN  /\ DOMAIN req[s].cookies = AuthCookies
            /\ n = nextId - 1 /\ c = nextId - 1
            /\ n \notin {req[s].jwt, req[s].csrfHeader}
            /\ issued[n] = [clientId |-> req[s].loginSession.clientId, at |-> now, by |-> req[s].id]
            /\ n \in DOMAIN loginStore
            /\ loginStore[n] = [clientId |-> req[s].loginSession.clientId,
                                expiresAt |-> now + SessionTTL, isCanceled |-> FALSE]
            /\ c \in DOMAIN csrfStore
            /\ csrfStore[c] = [clientId |-> req[s].loginSession.clientId,
                               expiresAt |-> now + SessionTTL]
            /\ req[s].auth = [clientId |-> req[s].loginSession.clientId,
                              loginSessionUUID |-> req[s].jwt]
            /\ req[s].loginSession.uuid = req[s].jwt

C21_Witness ==
    \E s \in Slots :
        /\ Forwarded(s)
        /\ req[s].csrfCookie # req[s].csrfHeader
        /\ req[s].auth.clientId = "u2"

\* the requests in slots s1 and s2 both carried pair uuid through the gate and have been
\* answered, and no store operation of either met an error
RacedOn(s1, s2, uuid) ==
    /\ s1 # s2
    /\ \A s \in {s1, s2} :
          /\ req[s].mode = "gate" /\ req[s].pc = "done"
          /\ Carries(req[s], uuid)
          /\ req[s].errs = {}

\* both were validated, both forwarded, each with a replacement pair of its own that is
\* in the stores, of the same owner, and that no deletion has touched or is to touch
BothRotated(s1, s2, uuid) ==
    /\ \A s \in {s1, s2} :
          /\ req[s].result = "success"
          /\ Forwarded(s)
          /\ DOMAIN req[s].cookies = AuthCookies
          /\ req[s].cookies.auth_jwt \in DOMAIN loginStore
          /\ req[s].cookies.auth_csrf \in DOMAIN csrfStore
          /\ loginStore[req[s].cookies.auth_jwt].clientId = issued[uuid].clientId
          /\ csrfStore[req[s].cookies.auth_csrf].clientId = issued[uuid].clientId
          /\ req[s].cookies.auth_jwt # uuid
          /\ \A t \in timers : t.uuid # req[s].cookies.auth_jwt
          /\ \A e \in fired \cup purged : e.uuid # req[s].cookies.auth_jwt
    /\ req[s1].cookies.auth_jwt # req[s2].cookies.auth_jwt
    /\ req[s1].cookies.auth_csrf # req[s2].cookies.auth_csrf

\* C22 as stated: two requests that carry the same valid pair and both arrive before
\* the grace delay of its rotation has elapsed are, whatever the interleaving and with
\* no store error, both validated and forwarded, each with its own replacement pair
C22_ConcurrentRotation_Original ==
    \A s1, s2 \in Slots : \A u \in 1..(nextId - 1) :
        (/\ RacedOn(s1, s2, u)
         /\ \A s \in {s1, s2} :
               /\ req[s].arrivedAt < issued[u].at + SessionTTL
               /\ \A e \in scheduled : e.uuid = u => req[s].arrivedAt < e.at + GraceDelay) =>
            BothRotated(s1, s2, u)

\* C22 amended: two requests that carry the same valid pair and are both handled to the
\* end before the pair expires and before the grace delay of its rotation has elapsed,
\* with no store error and the owner found by the owner lookup, are both validated and
\* forwarded, each with its own replacement pair, which no deletion touches
C22_ConcurrentRotation ==
    \A s1, s2 \in Slots : \A u \in 1..(nextId - 1) :
        (/\ RacedOn(s1, s2, u)
         /\ now < issued[u].at + SessionTTL
         /\ \A e \in scheduled : e.uuid = u => now < e.at + GraceDelay
         /\ \A s \in {s1, s2} : \A k \in 1..Len(req[s].responses) :
               req[s].responses[k].errorType # "noUser") =>
            BothRotated(s1, s2, u)

\* both rotated while the other was in flight: the second was validated after the first
\* had scheduled the deletions, and the first got its replacement pair last
C22_Witness ==
    /\ Cardinality(Slots) = 2
    /\ RacedOn(1, 2, 1)
    /\ BothRotated(1, 2, 1)
    /\ now < issued[1].at + SessionTTL
    /\ \A e \in scheduled : e.uuid = 1 => now < e.at + GraceDelay
    /\ req[1].cookies.auth_jwt > req[2].cookies.auth_jwt

\* the pcs at which a call of authCheckHelper is waiting for a store call or about to
\* run the code after one
ValidatorPcs == {"findLogin", "checkLogin", "findCSRF", "checkCSRF", "failDeleteLogin", "failDeleteCSRF"}

InValidator(s) == s \in Slots /\ req[s].pc \in ValidatorPcs

\* authCheckHelper has returned for the request in slot s
Returned(s) == s \in Slots /\ Active(s) /\ req[s].pc \notin ValidatorPcs

\* what authCheckHelper returned: the identity of the sessions it looked up, or false
\* after a failure with one tag of the taxonomy and the status that goes with the tag
TaggedOutcome(rq) ==
    \/ /\ rq.result = "success"
       /\ rq.errorType = ""
       /\ Identity(rq) = [clientId |-> rq.loginSession.clientId,
                          loginSessionUUID |-> rq.jwt, csrfSessionUUID |-> rq.csrfHeader]
       /\ rq.loginSession.found /\ rq.csrfSession.found
    \/ /\ rq.result = "fail"
       /\ rq.errorType \in Taxonomy
       /\ rq.status = IF rq.errorType = "database" THEN 500 ELSE 401
       /\ Len(rq.responses) = IF rq.sendResOnFail THEN 1 ELSE 0
       /\ \A k \in 1..Len(rq.responses) : rq.responses[k].errorType = rq.errorType

\* C23: every call of authCheckHelper returns, whatever the request holds and whether
\* the store calls answer or fail, and what it returns is the identity or a failure
\* with exactly one tag of the taxonomy; while it runs it is at one of its awaits
C23_Terminates ==
    /\ [](\A s \in Slots :
            /\ Active(s) => req[s].pc \in ValidatorPcs \cup {"getClient", "newSession", "done"}
            /\ InValidator(s) => req[s].result = "pending"
            /\ Returned(s) => TaggedOutcome(req[s]))
    /\ \A s \in 1..MaxRequests : InValidator(s) ~> Returned(s)

\* a call returned after findCSRFSession and deleteLoginSession both failed
C23_Witness ==
    \E s \in Slots :
        /\ Returned(s)
        /\ req[s].errs = {"findCSRFSession", "deleteLoginSession"}
        /\ req[s].errorType = "database"

\* the same request with another value in the auth_csrf cookie
WithCookie(rq, c) == [rq EXCEPT !.csrfCookie = c]

\* the request as it arrived
ArrivalOf(rq) ==
    [Idle EXCEPT !.id = rq.id, !.arrivedAt = rq.arrivedAt, !.mode = rq.mode, !.path = rq.path,
                 !.sendResOnFail = rq.sendResOnFail, !.deleteCookiesOnFail = rq.deleteCookiesOnFail,
                 !.jwt = rq.jwt, !.csrfCookie = rq.csrfCookie, !.csrfHeader = rq.csrfHeader]

\* the values a client can put in the auth_csrf cookie
CookieValues == {Bogus} \cup SessionIds

\* a step of the validator on the request in slot s takes the request with any other
\* cookie value to the same request with that cookie value: same pc, same sessions looked
\* up, same ids to delete, same log of store operations, same outcome, same response
CookieBlindStep(s) ==
    LET a == req[s]
        b == req'[s]
    IN  \A c \in CookieValues :
          /\ (a.pc = "idle" /\ b.mode \in {"gate", "helper"} /\ b.csrfCookie # Absent) =>
                /\ b = authCheckHelperStart(ArrivalOf(b))
                /\ authCheckHelperStart(WithCookie(ArrivalOf(b), c)) = WithCookie(b, c)
          /\ (a.pc \in ValidatorPcs /\ b # a /\ a.csrfCookie # Absent) =>
                \E err \in BOOLEAN :
                    /\ b = authCheckHelperNext(a, loginStore, csrfStore, now, err)
                    /\ authCheckHelperNext(WithCookie(a, c), loginStore, csrfStore, now, err)
                          = WithCookie(b, c)

SessionChecks(rq) ==
    IF "findLoginSession" \in rq.errs THEN "database"
    ELSE IF ~rq.loginSession.found THEN "loginSessionNotFound"
    ELSE IF ~rq.loginFresh THEN "sessionExpired"
    ELSE IF rq.loginSession.isCanceled THEN "sessionCanceled"
    ELSE IF "findCSRFSession" \in rq.errs THEN "database"
    ELSE IF ~rq.csrfSession.found THEN "csrfSessionNotFound"
    ELSE IF ~rq.csrfFresh THEN "sessionExpired"
    ELSE IF rq.csrfSession.clientId # rq.loginSession.clientId THEN "verification"
    ELSE ""

\* the order as stated: presence of the three parts, then token verification
FirstFailingStated(rq) ==
    IF NonePresent(rq) THEN "notLoggedIn"
    ELSE IF ~AllPresent(rq) THEN "incompleteAuth"
    ELSE IF jwtVerify(rq.jwt) = Absent THEN "verification"
    ELSE SessionChecks(rq)

\* the order of the code: presence of any part, token verification, presence of all
FirstFailing(rq) ==
    IF NonePresent(rq) THEN "notLoggedIn"
    ELSE IF rq.jwt # Absent /\ jwtVerify(rq.jwt) = Absent THEN "verification"
    ELSE IF ~AllPresent(rq) THEN "incompleteAuth"
    ELSE SessionChecks(rq)

\* the store lookups of the request, in the order they were made
Lookups(rq) == SelectSeq(rq.ops, LAMBDA op : op \in {"findLoginSession", "findCSRFSession"})

\* no check runs after one that failed: the LoginSession is looked up once and only for a
\* complete request with a verified token, the CSRFSession once and only after a
\* LoginSession that passed its checks
NoLaterCheck(rq) ==
    /\ Lookups(rq) \in {<<>>, <<"findLoginSession">>, <<"findLoginSession", "findCSRFSession">>}
    /\ Did(rq, "findLoginSession") => AllPresent(rq) /\ jwtVerify(rq.jwt) # Absent
    /\ Did(rq, "findCSRFSession") =>
          /\ "findLoginSession" \notin rq.errs
          /\ rq.loginSession.found /\ rq.loginFresh /\ ~rq.loginSession.isCanceled
    /\ rq.result = "fail" =>
          /\ rq.errorType \in {"notLoggedIn", "incompleteAuth"} => Lookups(rq) = <<>>
          /\ rq.errorType \in {"loginSessionNotFound", "sessionCanceled"} =>
                Lookups(rq) = <<"findLoginSession">>

\* C25 as stated: the checks run in the order presence, token verification, LoginSession
\* lookup, expiry, cancellation, CSRFSession lookup, expiry, owner match; the outcome is
\* the tag of the first that fails and no later check runs
C25_CheckOrder_Original ==
    \A s \in Slots : Returned(s) =>
        /\ req[s].errorType = FirstFailingStated(req[s])
        /\ NoLaterCheck(req[s])

\* C25 amended: the checks run in the order presence of any part, token verification,
\* presence of all three parts, LoginSession lookup, expiry, cancellation, CSRFSession
\* lookup, expiry, owner match; the outcome is the tag of the first that fails, success
\* when none fails, and no later check runs: the CSRF store is not queried when a
\* LoginSession check fails
C25_CheckOrder ==
    \A s \in Slots : Returned(s) =>
        /\ req[s].errorType = FirstFailing(req[s])
        /\ req[s].result = IF FirstFailing(req[s]) = "" THEN "success" ELSE "fail"
        /\ NoLaterCheck(req[s])

\* a canceled LoginSession and a header that names no session: sessionCanceled, and the
\* CSRF store is not queried
C25_Witness ==
    \E s \in Slots :
        /\ Returned(s)
        /\ req[s].errorType = "sessionCanceled" /\ req[s].csrfHeader = Bogus
        /\ Lookups(req[s]) = <<"findLoginSession">>

\* the two timers a successful validation of the request rq in the gate sets at time t
RotationTimers(rq, t) ==
    {[store |-> "login", uuid |-> rq.loginSessionUUID, by |-> rq.id, at |-> t, fireAt |-> t + GraceDelay],
     [store |-> "csrf", uuid |-> rq.csrfSessionUUID, by |-> rq.id, at |-> t, fireAt |-> t + GraceDelay]}

\* the validator has just returned the identity to the gate for the request in slot s
ValidatedInGate(s) ==
    /\ req[s].mode = "gate" /\ req[s].pc = "checkCSRF"
    /\ req'[s].result = "success"

\* a step sets timers only when the gate has validated a request, and then the two of
\* the old pair, with the gate going on to the owner lookup in the same step
SchedulesOnce ==
    IF \E s \in Slots : ValidatedInGate(s)
    THEN \E s \in Slots :
            /\ ValidatedInGate(s)
            /\ timers' = timers \cup RotationTimers(req'[s], now)
            /\ Cardinality(timers' \ timers) = 2
            /\ req'[s].loginSessionUUID = req[s].jwt
            /\ req'[s].csrfSessionUUID = req[s].csrfHeader
            /\ req'[s].pc = "getClient"
    ELSE timers' \subseteq timers

\* a timer goes off when its grace delay has elapsed, makes one deletion attempt on its
\* own session and is gone, also when the attempt fails
FiresOnce ==
    timers' # timers /\ timers' \subseteq timers =>
        \E t \in timers :
            /\ timers' = timers \ {t}
            /\ now >= t.at + GraceDelay
            /\ \E f \in fired' :
                  /\ f.store = t.store /\ f.uuid = t.uuid /\ f.by = t.by
                  /\ fired' = fired \cup {f}
                  /\ loginStore' = IF f.outcome = "deleted" /\ t.store = "login"
                                   THEN deleteSession(loginStore, t.uuid) ELSE loginStore
                  /\ csrfStore' = IF f.outcome = "deleted" /\ t.store = "csrf"
                                  THEN deleteSession(csrfStore, t.uuid) ELSE csrfStore

\* C26: each successful validation in the gate sets exactly one timer for the old
\* LoginSession id and one for the old CSRFSession id; a timer makes its deletion attempt
\* only when the grace delay has elapsed, is never set again, also when the attempt
\* failed, and the gate goes on to the new pair and to next() with the timers pending
C26_DeferredOnce ==
    /\ [][SchedulesOnce /\ FiresOnce]_vars
    /\ [](/\ \A t \in timers : t.fireAt = t.at + GraceDelay /\ t.at <= now
          /\ \A f \in fired : \A t \in timers : ~(t.store = f.store /\ t.uuid = f.uuid /\ t.by = f.by)
          /\ \A f \in fired : \E e \in scheduled :
                e.store = f.store /\ e.uuid = f.uuid /\ e.by = f.by /\ now >= e.at + GraceDelay
          /\ \A s \in Slots : (Forwarded(s) /\ now < req[s].arrivedAt + GraceDelay) =>
                RotationTimers(req[s], now) \subseteq timers)

\* a request has been forwarded, the deferred deletion of its LoginSession failed and
\* the one of its CSRFSession did not, and no timer is left
C26_Witness ==
    \E s \in Slots :
        /\ Forwarded(s)
        /\ [store |-> "login", uuid |-> req[s].jwt, by |-> req[s].id, outcome |-> "error"] \in fired
        /\ [store |-> "csrf", uuid |-> req[s].csrfHeader, by |-> req[s].id, outcome |-> "deleted"] \in fired
        /\ req[s].jwt \in DOMAIN loginStore
        /\ timers = {}

\* the same call with other options
WithOptions(rq, sendResOnFail, deleteCookiesOnFail) ==
    [rq EXCEPT !.sendResOnFail = sendResOnFail, !.deleteCookiesOnFail = deleteCookiesOnFail]

\* the call without its options, the responses sent and the cookies cleared: what is
\* left is the pc, the sessions looked up, the ids to delete, the log of store
\* operations and the outcome
BesidesResponseAndCookies(rq) ==
    [rq EXCEPT !.sendResOnFail = FALSE, !.deleteCookiesOnFail = FALSE,
               !.responses = NoResponse, !.cleared = {}]

\* a step of the validator on the request in slot s does, with any other options, the
\* same but for the response and the cookies
OptionBlindStep(s) ==
    LET a == req[s]
        b == req'[s]
    IN  \A f1, f2 \in BOOLEAN :
          /\ (a.pc = "idle" /\ b.mode \in {"gate", "helper"}) =>
                /\ b = authCheckHelperStart(ArrivalOf(b))
                /\ BesidesResponseAndCookies(authCheckHelperStart(WithOptions(ArrivalOf(b), f1, f2)))
                      = BesidesResponseAndCookies(b)
          /\ (a.pc \in ValidatorPcs /\ b # a) =>
                \E err \in BOOLEAN :
                    /\ b = authCheckHelperNext(a, loginStore, csrfStore, now, err)
                    /\ BesidesResponseAndCookies(
                           authCheckHelperNext(WithOptions(a, f1, f2), loginStore, csrfStore, now, err))
                         = BesidesResponseAndCookies(b)

\* C27: with sendResOnFail false the validator sends no response on any failure, with
\* deleteCookiesOnFail false it clears no cookie on any failure, and with any options
\* its outcome, its store lookups and the sessions it deletes are the same
C27_FlagsOnly ==
    /\ [][\A s \in Slots : OptionBlindStep(s)]_vars
    /\ [](\A s \in Slots : (Active(s) /\ req[s].result # "success") =>
            /\ ~req[s].sendResOnFail => req[s].responses = NoResponse
            /\ ~req[s].deleteCookiesOnFail => req[s].cleared = {}
            /\ (req[s].loginSessionUUID # Absent /\ Returned(s)) => Did(req[s], "deleteLoginSession")
            /\ (req[s].csrfSessionUUID # Absent /\ Returned(s)) => Did(req[s], "deleteCSRFSession"))

\* a call with both options false has failed after both sessions were found and has
\* deleted both
C27_Witness ==
    \E s \in Slots :
        /\ Returned(s) /\ req[s].result = "fail"
        /\ ~req[s].sendResOnFail /\ ~req[s].deleteCookiesOnFail
        /\ \E p \in purged : p.by = req[s].id /\ p.store = "login"
        /\ \E p \in purged : p.by = req[s].id /\ p.store = "csrf"
        /\ req[s].responses = NoResponse /\ req[s].cleared = {}

\* the validator is cleaning up, or has returned, after a lookup that met a store error
EndsWithDatabase(rq) ==
    /\ rq.mode \in {"gate", "helper"}
    /\ rq.errorType = "database"
    /\ rq.errs \cap {"findLoginSession", "findCSRFSession"} # {}

\* C28 as stated: no step of a validation that ends with database changes the
\* LoginSession store or the CSRFSession store
C28_DatabaseKeepsStores_Original ==
    [][\A s \in Slots :
          (EndsWithDatabase(req[s]) /\ req[s].pc \in ValidatorPcs /\ req'[s] # req[s]) =>
              /\ loginStore' = loginStore
              /\ csrfStore' = csrfStore]_vars

\* C28 amended: a validation that ends with database leaves the CSRFSession store
\* unchanged and deletes the LoginSession named by the token and nothing else: when it
\* has returned, the delete of that LoginSession has been called and, unless the delete
\* met a store error, the LoginSession is not in the store
C28_DatabaseKeepsStores ==
    /\ [][\A s \in Slots :
            (EndsWithDatabase(req[s]) /\ req[s].pc \in ValidatorPcs /\ req'[s] # req[s]) =>
                /\ csrfStore' = csrfStore
                /\ loginStore' \in {loginStore, deleteSession(loginStore, req[s].jwt)}]_vars
    /\ [](\A s \in Slots : (EndsWithDatabase(req[s]) /\ Returned(s)) =>
            /\ req[s].result = "fail" /\ req[s].status = 500
            /\ req[s].csrfSessionUUID = Absent
            /\ ~Did(req[s], "deleteCSRFSession")
            /\ \A p \in purged : p.by = req[s].id => p.store = "login" /\ p.uuid = req[s].jwt
            /\ Did(req[s], "deleteLoginSession")
            /\ "deleteLoginSession" \notin req[s].errs => req[s].jwt \notin DOMAIN loginStore)

\* findCSRFSession met a store error for a request with a usable pair: the LoginSession
\* is gone, the CSRFSession is there
C28_Witness ==
    \E s \in Slots :
        /\ Returned(s) /\ req[s].errorType = "database"
        /\ req[s].errs = {"findCSRFSession"}
        /\ req[s].loginSession.found /\ req[s].loginFresh /\ ~req[s].loginSession.isCanceled
        /\ [store |-> "login", uuid |-> req[s].jwt, by |-> req[s].id] \in purged
        /\ req[s].jwt \notin DOMAIN loginStore
        /\ req[s].csrfHeader \in DOMAIN csrfStore
        /\ now < csrfStore[req[s].csrfHeader].expiresAt

\* C29: the sessions a failed validation deletes belong to the owner of the LoginSession
\* the request's verified token names, whatever header value the request holds
C29_NoForeignDeletion ==
    \A s \in Slots : (Active(s) /\ req[s].jwt >= 1) =>
        \A p \in purged : p.by = req[s].id =>
            issued[p.uuid].clientId = issued[req[s].jwt].clientId

\* what the request in slot s has had deleted, scheduled for deletion or set
NoSideEffect(s) ==
    /\ \A p \in purged : p.by # req[s].id
    /\ \A e \in scheduled : e.by # req[s].id
    /\ \A t \in timers : t.by # req[s].id
    /\ req[s].cleared = {}
    /\ req[s].cookies = <<>>
    /\ req[s].responses = NoResponse
    /\ req[s].auth = <<>>
    /\ req[s].nextCalls = 0

\* C30: a call of authCheckHelper that returns the identity has made the two lookups and
\* nothing else: no delete, no write to a store, no cookie cleared or set, no response,
\* no timer; the steps of such a call leave both stores as they are; the cookies are
\* cleared and the deletions scheduled by authCheck only
C30_SuccessReadOnly ==
    /\ [][\A s \in Slots :
            (req[s].pc \in ValidatorPcs /\ req'[s] # req[s] /\ req'[s].errorType = "") =>
                /\ loginStore' = loginStore /\ csrfStore' = csrfStore
                /\ nextId' = nextId /\ purged' = purged
                /\ req[s].mode = "helper" => timers' = timers /\ scheduled' = scheduled]_vars
    /\ [](\A s \in Slots : (Returned(s) /\ req[s].result = "success") =>
            /\ Lookups(req[s]) = <<"findLoginSession", "findCSRFSession">>
            /\ req[s].mode = "helper" =>
                  /\ req[s].ops = <<"findLoginSession", "findCSRFSession">>
                  /\ req[s].errs = {}
                  /\ NoSideEffect(s)
            /\ req[s].mode = "gate" =>
                  /\ \A p \in purged : p.by # req[s].id
                  /\ \A k \in 1..Len(req[s].ops) : req[s].ops[k] \notin {"deleteLoginSession", "deleteCSRFSession"}
                  /\ req[s].cleared = AuthCookies)

\* another handler has called authCheckHelper with sendResOnFail set and got the
\* identity, for a token and a header value of different pairs
C30_Witness ==
    \E s \in Slots :
        /\ Returned(s) /\ req[s].result = "success"
        /\ req[s].mode = "helper" /\ req[s].sendResOnFail
        /\ req[s].jwt # req[s].csrfHeader
        /\ NoSideEffect(s)

\* the pairs createSessionAndSetCookies has created for a request of the gate
GateCreated == {n \in DOMAIN issued : issued[n].by # Idle.id}

\* the requests the gate has validated successfully
GateValidated == {e.by : e \in scheduled}

\* C31: the gate creates sessions only after a successful validation: the pairs it has
\* created are no more than the requests it has validated, each for a different
\* validated request, after its validation and for the owner of the LoginSession that
\* was validated; a request that is exempt, that another handler validates, that has
\* failed validation or is still being validated has had no session created
C31_CreateAfterValidation ==
    /\ Cardinality(GateCreated) <= Cardinality(GateValidated)
    /\ \A n \in GateCreated :
          /\ \E e \in scheduled :
                /\ e.by = issued[n].by /\ e.store = "login"
                /\ e.uuid # n
                /\ e.at <= issued[n].at
                /\ issued[n].clientId = issued[e.uuid].clientId
          /\ \A m \in GateCreated : issued[m].by = issued[n].by => m = n
          /\ n \in DOMAIN loginStore => loginStore[n].clientId = issued[n].clientId
          /\ n \in DOMAIN csrfStore => csrfStore[n].clientId = issued[n].clientId
    /\ DOMAIN loginStore \cup DOMAIN csrfStore \subseteq DOMAIN issued
    /\ \A s \in Slots :
          (\/ req[s].mode \in {"exempt", "helper"}
           \/ Active(s) /\ req[s].result # "success") =>
              \A n \in DOMAIN issued : issued[n].by # req[s].id

\* the gate has created a pair for a request of u2, and a later request with a token
\* that verifies has failed validation
C31_Witness ==
    /\ \E n \in GateCreated : issued[n].clientId = "u2"
    /\ \E s \in Slots :
          /\ req[s].mode = "gate" /\ req[s].pc = "done"
          /\ req[s].result = "fail" /\ req[s].jwt >= 1
====
